---- MODULE Spec2Model ----
(***************************************************************************)
(* Model of the KVM driver of libmicrovmi (src/src/driver/kvm.rs): the     *)
(* Kvm<T: KVMIntrospectable> struct, its Introspectable implementation and *)
(* its Drop, run against a KVMi backend T whose answers are chosen by the  *)
(* environment.                                                            *)
(***************************************************************************)
EXTENDS Integers, Sequences, FiniteSets, TLC

\* ---- bounds of the model ----
MaxVcpus == 2
MaxCrValue == 1
MaxCalls == 4

VARIABLES
    pc,                 \* where the single caller is in the driver's lifetime
    nvcpu,              \* the VCPU count the KVMi backend reports
    expect_pause_ev,    \* Kvm.expect_pause_ev
    vec_events,         \* Kvm.vec_events: VCPU -> Option<KVMiEvent>
    kvmi,               \* the backend behind Kvm.kvmi
    last,               \* the call under way or last completed, with its backend calls
    ncalls              \* number of capability calls made so far

vars == <<pc, nvcpu, expect_pause_ev, vec_events, kvmi, last, ncalls>>

Vcpus == 0 .. (nvcpu - 1)
CrValues == 0 .. MaxCrValue

\* Option<T>: None is the empty sequence, Some(x) is <<x>>
None == <<>>
Some(x) == <<x>>

\* ---- the native (kvmi crate) and the neutral (api.rs) data model ----
KVMiCrs == {"KVMiCr::Cr0", "KVMiCr::Cr3", "KVMiCr::Cr4"}

\* KVMiEvent { vcpu, ev_type }
KVMiEvent(v, t, c, n, o) == [vcpu |-> v, ev_type |-> t, cr_type |-> c, new |-> n, old |-> o]
PauseVCPUEvent(v) == KVMiEvent(v, "PauseVCPU", "-", 0, 0)
MsrEvent(v) == KVMiEvent(v, "Msr", "-", 0, 0)
CrEvent(v, c, n, o) == KVMiEvent(v, "Cr", c, n, o)

\* the CrType values toggle_intercept translates (its match has no arm for the
\* CrType::Cr2 of api.rs, and KVMiCr has no such register)
CrTypes == {"CrType::Cr0", "CrType::Cr3", "CrType::Cr4"}

\* toggle_intercept: match micro_cr_type { CrType::Cr0 => KVMiCr::Cr0, ... }
CrTypeToKVMiCr(c) ==
    CASE c = "CrType::Cr0" -> "KVMiCr::Cr0"
      [] c = "CrType::Cr3" -> "KVMiCr::Cr3"
      [] c = "CrType::Cr4" -> "KVMiCr::Cr4"

\* listen: match cr_type { KVMiCr::Cr0 => CrType::Cr0, ... }
KVMiCrToCrType(c) ==
    CASE c = "KVMiCr::Cr0" -> "CrType::Cr0"
      [] c = "KVMiCr::Cr3" -> "CrType::Cr3"
      [] c = "KVMiCr::Cr4" -> "CrType::Cr4"

\* listen filling `new` and `old` the wrong way round
EventKindSwapped(e) == [tag |-> "EventType::Cr", cr_type |-> KVMiCrToCrType(e.cr_type),
                        new |-> e.old, old |-> e.new]

\* listen: EventType::Cr { cr_type, new, old } built from the native event
EventKind(e) == [tag |-> "EventType::Cr", cr_type |-> KVMiCrToCrType(e.cr_type),
                 new |-> e.new, old |-> e.old]

\* listen: Event { vcpu, kind }
Event(e) == [vcpu |-> e.vcpu, kind |-> EventKind(e)]

\* listen: timeout.try_into() of a u32 into the i32 of wait_and_pop_event; the
\* timeouts are named, u32::MAX standing for those above i32::MAX
Timeouts == {"1000", "u32::MAX"}
FitsI32(timeout) == timeout # "u32::MAX"

\* ---- the backend ----
\* one call of a KVMIntrospectable method, as the backend saw it
Call(f, v, a, e, ok) == [fn |-> f, vcpu |-> v, arg |-> a, ev |-> e, ok |-> ok]

\* events the backend can hand out now: a pause acknowledgement it still owes, a
\* control-register write that is intercepted, or an event of a kind the driver
\* does not translate
Deliverable ==
    {PauseVCPUEvent(v) : v \in {w \in Vcpus : kvmi.acks[w] > 0}}
    \cup UNION {{CrEvent(v, c, n, o) : c \in kvmi.cr[v], n \in CrValues, o \in CrValues} :
                 v \in {w \in Vcpus : kvmi.events[w]}}
    \cup {MsrEvent(v) : v \in Vcpus}

\* what wait_and_pop_event can answer now: Err, Ok(None) or Ok(Some(event))
WaitResults ==
    {[ok |-> FALSE, ev |-> None], [ok |-> TRUE, ev |-> None]}
    \cup {[ok |-> TRUE, ev |-> Some(e)] : e \in Deliverable}

\* the backend after wait_and_pop_event handed out r: a popped pause
\* acknowledgement is no longer owed
Popped(r) ==
    IF r.ev # None /\ r.ev[1].ev_type = "PauseVCPU"
    THEN [kvmi EXCEPT !.acks[r.ev[1].vcpu] = @ - 1]
    ELSE kvmi

WaitCall(r) == Call("wait_and_pop_event", -1, "-", r.ev, r.ok)
ReplyCall(e, ok) == Call("reply", e.vcpu, "Continue", Some(e), ok)
ControlEventsCall(v, en, ok) == Call("control_events", v, <<"KVMiInterceptType::Cr", en>>, None, ok)

\* ---- bookkeeping of the calls, for the properties ----
NumCalls(calls, f) == Cardinality({i \in 1 .. Len(calls) : calls[i].fn = f})

\* a call of the driver: its name, its VCPU argument, how it ended, the backend
\* calls it made, the Event it returned, and expect_pause_ev and the registers
\* the backend intercepted when it was made
Record(op, arg, ret, calls, out) ==
    [op |-> op, arg |-> arg, ret |-> ret, calls |-> calls, out |-> out,
     pre |-> expect_pause_ev, cr |-> kvmi.cr]

\* ---- construction ----
Init ==
    /\ pc = "start"
    /\ nvcpu \in 1 .. MaxVcpus
    /\ expect_pause_ev = 0
    /\ vec_events = [v \in {} |-> None]
    /\ kvmi = [acks |-> [v \in Vcpus |-> 0],
               events |-> [v \in Vcpus |-> FALSE],
               cr |-> [v \in Vcpus |-> {}]]
    /\ last = Record("-", -1, "-", <<>>, None)
    /\ ncalls = 0

\* the loop over the VCPUs running over 1..=vcpu_count
ControlEventsLoopFromOne(en, k) ==
    [i \in 1 .. (IF k < nvcpu THEN k + 1 ELSE k) |-> ControlEventsCall(i, en, i <= k)]

\* the control_events(vcpu, Cr, en) calls of a loop over 0..vcpu_count of which
\* the first k succeed and, when k < vcpu_count, the next one fails
ControlEventsLoop(en, k) ==
    [i \in 1 .. (IF k < nvcpu THEN k + 1 ELSE k) |-> ControlEventsCall(i - 1, en, i <= k)]

\* Kvm::new carrying on after a failed init instead of returning its error
NewIgnoresInitError ==
    /\ pc = "start"
    /\ UNCHANGED <<nvcpu, expect_pause_ev, ncalls>>
    /\ \E initOk \in BOOLEAN, countOk \in BOOLEAN, k \in 0 .. nvcpu :
        LET init == Call("init", -1, "/tmp/introspector", None, initOk)
            count == Call("get_vcpu_count", -1, "-", None, countOk)
        IN  IF ~countOk
            THEN /\ pc' = "panicked"
                 /\ last' = Record("new", -1, "Panic", <<init, count>>, None)
                 /\ UNCHANGED <<vec_events, kvmi>>
            ELSE /\ pc' = IF k = nvcpu THEN "idle" ELSE "panicked"
                 /\ vec_events' = [v \in Vcpus |-> None]
                 /\ kvmi' = [kvmi EXCEPT !.events = [v \in Vcpus |-> v < k]]
                 /\ last' = Record("new", -1, IF k = nvcpu THEN "Ok" ELSE "Panic",
                                   <<init, count>> \o ControlEventsLoop(TRUE, k), None)

\* Kvm::new
New ==
    /\ pc = "start"
    /\ UNCHANGED <<nvcpu, expect_pause_ev, ncalls>>
    /\ \E initOk \in BOOLEAN, countOk \in BOOLEAN, k \in 0 .. nvcpu :
        LET init == Call("init", -1, "/tmp/introspector", None, initOk)
            count == Call("get_vcpu_count", -1, "-", None, countOk)
        IN  IF ~initOk
            THEN /\ pc' = "failed"
                 /\ last' = Record("new", -1, "Err", <<init>>, None)
                 /\ UNCHANGED <<vec_events, kvmi>>
            ELSE IF ~countOk
            THEN /\ pc' = "panicked"
                 /\ last' = Record("new", -1, "Panic", <<init, count>>, None)
                 /\ UNCHANGED <<vec_events, kvmi>>
            ELSE /\ pc' = IF k = nvcpu THEN "idle" ELSE "panicked"
                 /\ vec_events' = [v \in Vcpus |-> None]
                 /\ kvmi' = [kvmi EXCEPT !.events = [v \in Vcpus |-> v < k]]
                 /\ last' = Record("new", -1, IF k = nvcpu THEN "Ok" ELSE "Panic",
                                   <<init, count>> \o ControlEventsLoop(TRUE, k), None)

\* Drop for Kvm; it also runs while a panic unwinds
Drop ==
    /\ pc \in {"idle", "panicked"}
    /\ pc' = "dropped"
    /\ UNCHANGED <<nvcpu, expect_pause_ev, vec_events, ncalls>>
    /\ \E countOk \in BOOLEAN, k \in 0 .. nvcpu :
        LET count == Call("get_vcpu_count", -1, "-", None, countOk)
        IN  IF ~countOk
            THEN /\ last' = Record("drop", -1, "Panic", <<count>>, None)
                 /\ UNCHANGED kvmi
            ELSE /\ kvmi' = [kvmi EXCEPT !.events = [v \in Vcpus |-> IF v < k THEN FALSE ELSE @[v]]]
                 /\ last' = Record("drop", -1, IF k = nvcpu THEN "Ok" ELSE "Panic",
                                   <<count>> \o ControlEventsLoop(FALSE, k), None)

\* ---- the capability operations ----
\* the caller makes another call on a live driver
CanCall == pc = "idle" /\ ncalls < MaxCalls

\* pause without its early return
AlreadyPausedNever == FALSE

\* pause: `if self.expect_pause_ev > 0`
AlreadyPaused == expect_pause_ev > 0

\* resume: `if self.expect_pause_ev == 0`
AlreadyResumed == expect_pause_ev = 0

\* resume leaving the loop one acknowledgement early
KeepDrainingOffByOne(n) == n > 1

\* resume: `while self.expect_pause_ev > 0`
KeepDraining(n) == n > 0

\* resume taking every event for an acknowledgement
IsPauseVCPUAny(e) == TRUE

\* resume: the arm `KVMiEventType::PauseVCPU` of the match on the event type
IsPauseVCPU(e) == e.ev_type = "PauseVCPU"

\* listen handing a PauseVCPU event to the caller instead of panicking
ListenResultSurfacesPause(opt) ==
    IF opt = None THEN [panic |-> FALSE, out |-> None]
    ELSE IF opt[1].ev_type = "Cr" THEN [panic |-> FALSE, out |-> Some(Event(opt[1]))]
    ELSE IF opt[1].ev_type = "PauseVCPU"
    THEN [panic |-> FALSE, out |-> Some([vcpu |-> opt[1].vcpu, kind |-> [tag |-> "PauseVCPU"]])]
    ELSE [panic |-> TRUE, out |-> None]

\* listen making up an event when the wait handed out none
ListenResultFabricates(opt) ==
    IF opt = None THEN [panic |-> FALSE, out |-> Some(Event(CrEvent(0, "KVMiCr::Cr3", 0, 0)))]
    ELSE IF opt[1].ev_type = "Cr" THEN [panic |-> FALSE, out |-> Some(Event(opt[1]))]
    ELSE [panic |-> TRUE, out |-> None]

\* listen: the match on kvmi_event_opt and on the event type; the arms of
\* PauseVCPU and of the other types panic
ListenResult(opt) ==
    IF opt = None THEN [panic |-> FALSE, out |-> None]
    ELSE IF opt[1].ev_type = "Cr" THEN [panic |-> FALSE, out |-> Some(Event(opt[1]))]
    ELSE [panic |-> TRUE, out |-> None]

\* listen: self.vec_events[vcpu_index] = Some(kvmi_event)
StoreEvent(events, e) == [events EXCEPT ![e.vcpu] = Some(e)]

\* reply_event reading the slot without emptying it
TakeEventKeeps(events, vcpu) == events

\* reply_event: mem::replace(&mut self.vec_events[vcpu_index], None)
TakeEvent(events, vcpu) == [events EXCEPT ![vcpu] = None]

\* Kvm::pause
Pause ==
    /\ CanCall
    /\ ncalls' = ncalls + 1
    /\ UNCHANGED <<pc, nvcpu, vec_events>>
    /\ IF AlreadyPaused
       THEN \* already paused ?
            /\ last' = Record("pause", -1, "Ok", <<>>, None)
            /\ UNCHANGED <<expect_pause_ev, kvmi>>
       ELSE \E pauseOk \in BOOLEAN, countOk \in BOOLEAN :
            LET pause == Call("pause", -1, "-", None, pauseOk)
                count == Call("get_vcpu_count", -1, "-", None, countOk)
            IN  IF ~pauseOk
                THEN /\ last' = Record("pause", -1, "Err", <<pause>>, None)
                     /\ UNCHANGED <<expect_pause_ev, kvmi>>
                ELSE /\ kvmi' = [kvmi EXCEPT !.acks = [v \in Vcpus |-> @[v] + 1]]
                     /\ IF ~countOk
                        THEN /\ last' = Record("pause", -1, "Err", <<pause, count>>, None)
                             /\ UNCHANGED expect_pause_ev
                        ELSE /\ last' = Record("pause", -1, "Ok", <<pause, count>>, None)
                             /\ expect_pause_ev' = nvcpu

\* resume waiting for an event before it tests the counter
ResumeDoWhile ==
    /\ pc = "idle" /\ ncalls < MaxCalls
    /\ ncalls' = ncalls + 1
    /\ UNCHANGED <<nvcpu, expect_pause_ev, vec_events, kvmi>>
    /\ pc' = "draining"
    /\ last' = Record("resume", -1, "Pending", <<>>, None)

\* Kvm::resume, up to the first test of the loop
Resume ==
    /\ CanCall
    /\ ncalls' = ncalls + 1
    /\ UNCHANGED <<nvcpu, expect_pause_ev, vec_events, kvmi>>
    /\ IF AlreadyResumed \/ ~KeepDraining(expect_pause_ev)
       THEN \* already resumed ?
            /\ pc' = pc
            /\ last' = Record("resume", -1, "Ok", <<>>, None)
       ELSE /\ pc' = "draining"
            /\ last' = Record("resume", -1, "Pending", <<>>, None)

\* Kvm::resume, one turn of `while self.expect_pause_ev > 0`
ResumeLoop ==
    /\ pc = "draining"
    /\ UNCHANGED <<nvcpu, vec_events, ncalls>>
    /\ \E r \in WaitResults, replyOk \in BOOLEAN :
        LET wait == WaitCall(r)
        IN  IF ~r.ok
            THEN \* wait_and_pop_event(1000)?
                 /\ pc' = "idle"
                 /\ last' = [last EXCEPT !.ret = "Err", !.calls = @ \o <<wait>>]
                 /\ UNCHANGED <<expect_pause_ev, kvmi>>
            ELSE IF r.ev = None \/ ~IsPauseVCPU(r.ev[1])
            THEN \* .unwrap() of None, or the panic! of the other event types
                 /\ pc' = "panicked"
                 /\ last' = [last EXCEPT !.ret = "Panic", !.calls = @ \o <<wait>>]
                 /\ UNCHANGED <<expect_pause_ev, kvmi>>
            ELSE /\ kvmi' = Popped(r)
                 /\ expect_pause_ev' = expect_pause_ev - 1
                 /\ pc' = IF replyOk /\ KeepDraining(expect_pause_ev') THEN "draining" ELSE "idle"
                 /\ last' = [last EXCEPT
                                !.ret = IF ~replyOk THEN "Err"
                                        ELSE IF KeepDraining(expect_pause_ev') THEN "Pending"
                                        ELSE "Ok",
                                !.calls = @ \o <<wait, ReplyCall(r.ev[1], replyOk)>>]

\* toggle_intercept passing VCPU 0 to the backend whatever the caller names
ToggleInterceptVcpu0 ==
    /\ CanCall
    /\ ncalls' = ncalls + 1
    /\ UNCHANGED <<pc, nvcpu, expect_pause_ev, vec_events>>
    /\ \E vcpu \in Vcpus, micro_cr_type \in CrTypes, enabled \in BOOLEAN, ok \in BOOLEAN :
        LET kvmi_cr == CrTypeToKVMiCr(micro_cr_type)
            call == Call("control_cr", 0, <<kvmi_cr, enabled>>, None, ok)
        IN  /\ last' = Record("toggle_intercept", vcpu, IF ok THEN "Ok" ELSE "Err", <<call>>, None)
            /\ kvmi' = IF ~ok THEN kvmi
                       ELSE [kvmi EXCEPT !.cr[0] = IF enabled THEN @ \cup {kvmi_cr}
                                                  ELSE @ \ {kvmi_cr}]

\* Kvm::toggle_intercept
ToggleIntercept ==
    /\ CanCall
    /\ ncalls' = ncalls + 1
    /\ UNCHANGED <<pc, nvcpu, expect_pause_ev, vec_events>>
    /\ \E vcpu \in Vcpus, micro_cr_type \in CrTypes, enabled \in BOOLEAN, ok \in BOOLEAN :
        LET kvmi_cr == CrTypeToKVMiCr(micro_cr_type)
            call == Call("control_cr", vcpu, <<kvmi_cr, enabled>>, None, ok)
        IN  /\ last' = Record("toggle_intercept", vcpu, IF ok THEN "Ok" ELSE "Err", <<call>>, None)
            /\ kvmi' = IF ~ok THEN kvmi
                       ELSE [kvmi EXCEPT !.cr[vcpu] = IF enabled THEN @ \cup {kvmi_cr}
                                                      ELSE @ \ {kvmi_cr}]

\* Kvm::listen
Listen ==
    /\ CanCall
    /\ ncalls' = ncalls + 1
    /\ UNCHANGED <<nvcpu, expect_pause_ev>>
    /\ \E timeout \in Timeouts, r \in WaitResults :
        LET wait == WaitCall(r)
        IN  IF ~FitsI32(timeout)
            THEN \* timeout.try_into().unwrap()
                 /\ pc' = "panicked"
                 /\ last' = Record("listen", -1, "Panic", <<>>, None)
                 /\ UNCHANGED <<vec_events, kvmi>>
            ELSE IF ~r.ok
            THEN /\ pc' = pc
                 /\ last' = Record("listen", -1, "Err", <<wait>>, None)
                 /\ UNCHANGED <<vec_events, kvmi>>
            ELSE IF ListenResult(r.ev).panic
            THEN \* the panic! of PauseVCPU, unimplemented!() of the other types
                 /\ pc' = "panicked"
                 /\ last' = Record("listen", -1, "Panic", <<wait>>, None)
                 /\ vec_events' = vec_events
                 /\ kvmi' = Popped(r)
            ELSE /\ pc' = pc
                 /\ vec_events' = IF r.ev = None THEN vec_events
                                  ELSE StoreEvent(vec_events, r.ev[1])
                 /\ last' = Record("listen", -1, "Ok", <<wait>>, ListenResult(r.ev).out)
                 /\ kvmi' = Popped(r)

\* Kvm::reply_event, for an Event the caller holds; only its vcpu is read
ReplyEvent ==
    /\ CanCall
    /\ ncalls' = ncalls + 1
    /\ UNCHANGED <<nvcpu, expect_pause_ev, kvmi>>
    /\ \E vcpu \in Vcpus, replyOk \in BOOLEAN :
        LET kvmi_event == vec_events[vcpu]
        IN  /\ vec_events' = TakeEvent(vec_events, vcpu)
            /\ IF kvmi_event = None
               THEN \* .unwrap() of None
                    /\ pc' = "panicked"
                    /\ last' = Record("reply_event", vcpu, "Panic", <<>>, None)
               ELSE /\ pc' = pc
                    /\ last' = Record("reply_event", vcpu, IF replyOk THEN "Ok" ELSE "Err",
                                      <<ReplyCall(kvmi_event[1], replyOk)>>, None)

\* Introspectable: the body the trait gives an operation that a driver does not
\* define, unimplemented!()
DefaultBody == "Panic"

\* Introspectable::write_registers, which Kvm does not define
WriteRegisters ==
    /\ CanCall
    /\ ncalls' = ncalls + 1
    /\ UNCHANGED <<nvcpu, expect_pause_ev, vec_events, kvmi>>
    /\ \E vcpu \in Vcpus :
        /\ pc' = IF DefaultBody = "Panic" THEN "panicked" ELSE pc
        /\ last' = Record("write_registers", vcpu, DefaultBody, <<>>, None)

Next ==
    \/ New
    \/ Drop
    \/ Pause
    \/ Resume
    \/ ResumeLoop
    \/ ToggleIntercept
    \/ Listen
    \/ ReplyEvent
    \/ WriteRegisters

Spec == Init /\ [][Next]_vars

\* ---- the driver in front of a backend that cooperates during a drain ----
\* one turn of the drain loop in which the backend returns no error: the wait
\* hands out a pause acknowledgement it owes or times out, the reply is accepted
ResumeLoopCooperative ==
    /\ ResumeLoop
    /\ last'.ret # "Err"
    /\ LET wait == last'.calls[Len(last.calls) + 1]
       IN  IF wait.ev = None THEN TRUE ELSE wait.ev[1].ev_type = "PauseVCPU"

\* a turn of the drain loop in which an acknowledgement is handed out and consumed
DrainAck ==
    /\ ResumeLoopCooperative
    /\ expect_pause_ev' = expect_pause_ev - 1

NextCooperative ==
    \/ New
    \/ Drop
    \/ Pause
    \/ Resume
    \/ ResumeLoopCooperative
    \/ ToggleIntercept
    \/ Listen
    \/ ReplyEvent
    \/ WriteRegisters

\* the backend does hand out, in the end, each acknowledgement that a draining
\* resume() waits for
SpecCooperative == Init /\ [][NextCooperative]_vars /\ WF_vars(DrainAck)

\* ---- properties ----
\* the step is a call of the capability operation op
CallOf(op) == pc = "idle" /\ ncalls' = ncalls + 1 /\ last'.op = op

\* the event a wait_and_pop_event call handed out, None if it handed out none
EventOf(call) == IF call.fn = "wait_and_pop_event" /\ call.ok THEN call.ev ELSE None

\* C1: pause() is idempotent. A pause() that follows a successful pause(), with no
\* call in between, returns success, makes no backend call and leaves the
\* expected-acknowledgement count and the backend as they were; the two calls
\* together made exactly one backend pause request when the first one found the
\* guest running, and none when it was itself such a repeated pause().
C1_PauseIdempotent ==
    [][(CallOf("pause") /\ last.op = "pause" /\ last.ret = "Ok")
        => /\ last'.ret = "Ok"
           /\ last'.calls = <<>>
           /\ expect_pause_ev' = expect_pause_ev
           /\ kvmi' = kvmi
           /\ NumCalls(last.calls, "pause") + NumCalls(last'.calls, "pause")
                = (IF last.pre = 0 THEN 1 ELSE 0)]_vars

\* a second pause() has returned after a first one that asked the backend to pause
C1_Witness ==
    /\ last.op = "pause" /\ last.ret = "Ok" /\ last.calls = <<>>
    /\ expect_pause_ev = nvcpu /\ nvcpu = 2
    /\ \A v \in Vcpus : kvmi.acks[v] = 1

\* C2: a resume() called with all N acknowledgements of a successful pause()
\* outstanding, and returning success, has made exactly N event waits, each of
\* which handed out a PauseVCPU event, has answered each of them at once with one
\* accepted Continue reply for that very event, and leaves the count at 0; while
\* it is draining, and whatever the VCPU order, its calls are such pairs.
C2_ResumeDrainsAll ==
    (last.op = "resume" /\ last.pre = nvcpu /\ last.ret \in {"Ok", "Pending"})
    => /\ last.ret = "Ok" => (expect_pause_ev = 0 /\ Len(last.calls) = 2 * nvcpu)
       /\ Len(last.calls) = 2 * (nvcpu - expect_pause_ev)
       /\ \A i \in 1 .. (nvcpu - expect_pause_ev) :
            LET wait == last.calls[2 * i - 1]
                reply == last.calls[2 * i]
            IN  /\ wait.fn = "wait_and_pop_event" /\ wait.ok /\ wait.ev # None
                /\ wait.ev[1].ev_type = "PauseVCPU"
                /\ reply.fn = "reply" /\ reply.arg = "Continue" /\ reply.ok
                /\ reply.ev = wait.ev

\* resume() has returned success after two acknowledgements that arrived VCPU 1 first
C2_Witness ==
    /\ last.op = "resume" /\ last.ret = "Ok" /\ nvcpu = 2 /\ last.pre = 2
    /\ Len(last.calls) = 4
    /\ last.calls[1].ev[1].vcpu = 1 /\ last.calls[3].ev[1].vcpu = 0

\* C3: no call returns a pause acknowledgement as an Event: an Event is returned
\* by listen() only, for a control-register event the backend handed out, and
\* carries the control-register kind; a listen() that is handed a PauseVCPU event
\* returns nothing and stores nothing.
C3_NoPauseEventSurfaced ==
    /\ last.out # None
        => /\ last.op = "listen"
           /\ EventOf(last.calls[1]) # None
           /\ EventOf(last.calls[1])[1].ev_type = "Cr"
           /\ last.out[1].kind.tag = "EventType::Cr"
    /\ (last.op = "listen" /\ Len(last.calls) = 1 /\ EventOf(last.calls[1]) # None
        /\ EventOf(last.calls[1])[1].ev_type = "PauseVCPU")
        => /\ last.out = None
           /\ last.ret = "Panic"
           /\ \A v \in Vcpus : vec_events[v] = None \/ vec_events[v][1].ev_type = "Cr"

\* pause() was followed by a listen() that the backend handed an acknowledgement
C3_Witness ==
    /\ last.op = "listen" /\ Len(last.calls) = 1 /\ last.pre > 0
    /\ EventOf(last.calls[1]) # None
    /\ EventOf(last.calls[1])[1].ev_type = "PauseVCPU"

\* C4: resume() with the expected-acknowledgement count at 0 returns success, makes
\* no backend call (no event wait, no reply) and leaves the count, every pending
\* event slot and the backend unchanged.
C4_ResumeNoop ==
    [][(CallOf("resume") /\ expect_pause_ev = 0)
        => /\ last'.ret = "Ok"
           /\ last'.calls = <<>>
           /\ pc' = "idle"
           /\ UNCHANGED <<expect_pause_ev, vec_events, kvmi>>]_vars

\* resume() has returned without a pause outstanding, an event pending in a slot
C4_Witness ==
    /\ last.op = "resume" /\ last.ret = "Ok" /\ last.pre = 0 /\ pc = "idle"
    /\ \E v \in Vcpus : vec_events[v] # None

\* C5: reply_event for a VCPU whose pending event slot is empty returns an error
\* to the caller and sends no reply to the backend.
C5_ReplyWithoutEventIsError ==
    [][(CallOf("reply_event") /\ vec_events[last'.arg] = None)
        => /\ last'.ret = "Err"
           /\ NumCalls(last'.calls, "reply") = 0]_vars

\* C6: a listen() that is handed an event for a VCPU whose slot is occupied treats
\* it as a protocol violation and does not overwrite the stored event.
C6_ListenKeepsOccupiedSlot ==
    [][(/\ CallOf("listen")
        /\ Len(last'.calls) = 1
        /\ EventOf(last'.calls[1]) # None
        /\ vec_events[EventOf(last'.calls[1])[1].vcpu] # None)
        => /\ last'.ret # "Ok"
           /\ vec_events' = vec_events]_vars

\* the register name of the neutral model that a native register name stands for
SameRegister(kvmi_cr, cr_type) ==
    <<kvmi_cr, cr_type>> \in {<<"KVMiCr::Cr0", "CrType::Cr0">>,
                             <<"KVMiCr::Cr3", "CrType::Cr3">>,
                             <<"KVMiCr::Cr4", "CrType::Cr4">>}

\* C7: a listen() that the backend hands a control-register write event of VCPU v
\* returns success with an Event whose vcpu is v and whose kind is a
\* control-register write of the same register, new value and old value, and it
\* stores the native event in the slot of v and changes no other slot.
C7_ListenCarriesCrEvent ==
    [][(/\ CallOf("listen")
        /\ Len(last'.calls) = 1
        /\ EventOf(last'.calls[1]) # None
        /\ EventOf(last'.calls[1])[1].ev_type = "Cr")
        => LET e == EventOf(last'.calls[1])[1]
           IN  /\ last'.ret = "Ok"
               /\ last'.out # None
               /\ last'.out[1].vcpu = e.vcpu
               /\ last'.out[1].kind.tag = "EventType::Cr"
               /\ SameRegister(e.cr_type, last'.out[1].kind.cr_type)
               /\ last'.out[1].kind.new = e.new
               /\ last'.out[1].kind.old = e.old
               /\ vec_events'[e.vcpu] = Some(e)
               /\ \A v \in Vcpus \ {e.vcpu} : vec_events'[v] = vec_events[v]]_vars

\* listen() has returned a CR3 write of VCPU 1 whose old and new values differ
C7_Witness ==
    /\ last.op = "listen" /\ last.ret = "Ok" /\ last.out # None
    /\ last.out[1].vcpu = 1
    /\ last.out[1].kind.cr_type = "CrType::Cr3"
    /\ last.out[1].kind.new = 1 /\ last.out[1].kind.old = 0
    /\ vec_events[1] # None /\ vec_events[0] = None

C9_ListenNeverFabricates ==
    [][CallOf("listen")
        => /\ (Len(last'.calls) = 1 /\ EventOf(last'.calls[1]) = None)
                => /\ last'.out = None
                   /\ last'.ret = (IF last'.calls[1].ok THEN "Ok" ELSE "Err")
                   /\ vec_events' = vec_events
           /\ last'.out # None
                => /\ Len(last'.calls) = 1
                   /\ EventOf(last'.calls[1]) # None
                   /\ EventOf(last'.calls[1])[1] \in Deliverable
                   /\ last'.out[1].vcpu = EventOf(last'.calls[1])[1].vcpu]_vars

\* listen() has returned none after a wait that timed out, an event pending in a slot
C9_Witness ==
    /\ last.op = "listen" /\ last.ret = "Ok" /\ last.out = None
    /\ Len(last.calls) = 1 /\ last.calls[1].ok /\ last.calls[1].ev = None
    /\ \E v \in Vcpus : vec_events[v] # None

\* C10: while resume() drains, an event that is not a pause acknowledgement ends
\* the drain in a panic: no reply is sent for it, the count is not decremented and
\* resume() does not return success.
C10_DrainRejectsOtherEvents ==
    [][(/\ pc = "draining"
        /\ Len(last'.calls) > Len(last.calls)
        /\ EventOf(last'.calls[Len(last.calls) + 1]) # None
        /\ EventOf(last'.calls[Len(last.calls) + 1])[1].ev_type # "PauseVCPU")
        => /\ pc' = "panicked"
           /\ last'.ret = "Panic"
           /\ Len(last'.calls) = Len(last.calls) + 1
           /\ expect_pause_ev' = expect_pause_ev
           /\ kvmi' = kvmi]_vars

\* resume() has panicked on a control-register event after consuming one acknowledgement
C10_Witness ==
    /\ last.op = "resume" /\ last.ret = "Panic" /\ pc = "panicked"
    /\ Len(last.calls) = 3
    /\ last.calls[3].ev # None /\ last.calls[3].ev[1].ev_type = "Cr"
    /\ expect_pause_ev = 1

\* C11: once the driver is destroyed, no interception it enabled is left on: for
\* every VCPU and control register the caller toggled on and never off, the
\* backend no longer intercepts that register on that VCPU.
C11_DropDisablesIntercepts ==
    pc = "dropped"
        => \A v \in Vcpus : \A c \in kvmi.cr[v] :
            \A n \in CrValues, o \in CrValues : CrEvent(v, c, n, o) \notin Deliverable

\* the control_events(v, Cr, en) calls among calls
ControlEventsCalls(calls, v, en) ==
    {i \in 1 .. Len(calls) : /\ calls[i].fn = "control_events"
                             /\ calls[i].vcpu = v
                             /\ calls[i].arg = <<"KVMiInterceptType::Cr", en>>}

\* C12: a construction that succeeds has enabled control-register events exactly
\* once on each VCPU of 0..N and disabled them on none; a destruction that
\* completes has disabled them exactly once on each VCPU of 0..N and enabled them
\* on none, and it only follows the construction, so that the events of each VCPU
\* of a constructed driver were enabled when they are disabled.
C12_EnableOnceDisableOnce ==
    [][/\ (pc = "start" /\ last'.op = "new" /\ last'.ret = "Ok")
            => /\ NumCalls(last'.calls, "control_events") = nvcpu
               /\ \A v \in Vcpus :
                    /\ Cardinality(ControlEventsCalls(last'.calls, v, TRUE)) = 1
                    /\ ControlEventsCalls(last'.calls, v, FALSE) = {}
                    /\ ~kvmi.events[v] /\ kvmi'.events[v]
       /\ (pc # "dropped" /\ last'.op = "drop" /\ last'.ret = "Ok")
            => /\ pc \in {"idle", "panicked"}
               /\ NumCalls(last'.calls, "control_events") = nvcpu
               /\ \A v \in Vcpus :
                    /\ Cardinality(ControlEventsCalls(last'.calls, v, FALSE)) = 1
                    /\ ControlEventsCalls(last'.calls, v, TRUE) = {}
                    /\ pc = "idle" => kvmi.events[v]
                    /\ ~kvmi'.events[v]]_vars

\* a driver of a 2-VCPU domain was constructed and has been destroyed, both without
\* a failure of the backend
C12_Witness ==
    /\ pc = "dropped" /\ last.op = "drop" /\ last.ret = "Ok" /\ nvcpu = 2
    /\ ncalls = 0
    /\ Len(last.calls) = 3
    /\ \A v \in Vcpus : ~kvmi.events[v]

\* C13: when the init call of the backend fails, Kvm::new returns an error and no
\* other backend call is made, then or later: no VCPU-count query, no intercept
\* enable, and, no driver having been built, no intercept disable of a Drop.
C13_InitFailureStopsNew ==
    /\ (last.op = "new" /\ ~last.calls[1].ok)
        => /\ last.calls[1].fn = "init"
           /\ Len(last.calls) = 1
           /\ last.ret = "Err"
           /\ pc = "failed"
           /\ \A v \in Vcpus : ~kvmi.events[v]
    /\ pc = "failed" => (last.op = "new" /\ ~last.calls[1].ok)

\* Kvm::new has returned the error of a failed init
C13_Witness ==
    /\ pc = "failed" /\ last.op = "new" /\ last.ret = "Err"
    /\ last.calls[1].fn = "init" /\ ~last.calls[1].ok

\* C14: an operation the driver does not implement (write_registers on the KVM
\* driver) returns an error value to the caller instead of crashing, and the
\* driver stays usable.
C14_UnsupportedIsError ==
    last.op = "write_registers" => (last.ret = "Err" /\ pc = "idle")

\* the step is a toggle_intercept(v, Cr, false) that succeeds right after a
\* toggle_intercept(v, Cr, true) that succeeded, for the same VCPU and register
RoundTripStep ==
    /\ CallOf("toggle_intercept")
    /\ last.op = "toggle_intercept" /\ last.ret = "Ok" /\ last'.ret = "Ok"
    /\ last'.arg = last.arg
    /\ last.calls[1].arg[2] = TRUE /\ last'.calls[1].arg[2] = FALSE
    /\ last'.calls[1].arg[1] = last.calls[1].arg[1]

\* C15, as stated: the round trip leaves the interception state equal to the
\* state before the first call, and no event of that VCPU and register can be
\* handed out afterwards.
C15_RoundTripRestoresState ==
    [][RoundTripStep
        => /\ kvmi'.cr = last.cr
           /\ \A n \in CrValues, o \in CrValues :
                CrEvent(last.arg, last.calls[1].arg[1], n, o) \notin Deliverable']_vars

\* C15, amended: after the round trip, both calls having been made to the backend
\* for the caller's VCPU, the register is not intercepted on that VCPU, every
\* other VCPU and register is as before the first call, the state is the one
\* before the first call when the register was not intercepted then, and no event
\* of that VCPU and register can be handed out.
C15_RoundTripDisables ==
    [][RoundTripStep
        => LET v == last.arg
               c == last.calls[1].arg[1]
           IN  /\ last.calls[1].vcpu = v /\ last'.calls[1].vcpu = v
               /\ kvmi'.cr = [last.cr EXCEPT ![v] = @ \ {c}]
               /\ c \notin last.cr[v] => kvmi'.cr = last.cr
               /\ \A n \in CrValues, o \in CrValues :
                    CrEvent(v, c, n, o) \notin Deliverable']_vars

\* CR3 interception on VCPU 1 was toggled on and has been toggled off again
C15_Witness ==
    /\ ncalls = 2 /\ last.op = "toggle_intercept" /\ last.ret = "Ok" /\ last.arg = 1
    /\ last.calls[1].arg = <<"KVMiCr::Cr3", FALSE>>
    /\ "KVMiCr::Cr3" \in last.cr[1]
    /\ kvmi.cr[1] = {}

\* C16: while resume() drains, an event wait that ends without an event does not
\* end the drain: resume() is still draining, the counter unchanged, and waits
\* again.
C16_DrainSurvivesTimeout ==
    [][(/\ pc = "draining"
        /\ Len(last'.calls) = Len(last.calls) + 1
        /\ last'.calls[Len(last'.calls)].fn = "wait_and_pop_event"
        /\ last'.calls[Len(last'.calls)].ok
        /\ last'.calls[Len(last'.calls)].ev = None)
        => /\ pc' = "draining"
           /\ last'.ret = "Pending"
           /\ expect_pause_ev' = expect_pause_ev]_vars

\* C17: a pause() that follows a resume() which drained its acknowledgements and
\* returned success finds the counter at 0 and makes a new backend pause request,
\* its first backend call; it returns success exactly when that request and the
\* VCPU-count query succeed, and then the counter is the VCPU count again and the
\* backend owes one more acknowledgement for each VCPU.
C17_PauseAfterDrain ==
    [][(CallOf("pause") /\ last.op = "resume" /\ last.ret = "Ok" /\ last.calls # <<>>)
        => /\ expect_pause_ev = 0
           /\ last'.calls # <<>>
           /\ last'.calls[1].fn = "pause"
           /\ NumCalls(last'.calls, "pause") = 1
           /\ last'.ret = "Ok" <=> (Len(last'.calls) = 2 /\ last'.calls[1].ok /\ last'.calls[2].ok)
           /\ last'.ret = "Ok"
                => /\ expect_pause_ev' = nvcpu
                   /\ \A v \in Vcpus : kvmi'.acks[v] = kvmi.acks[v] + 1]_vars

\* the third call, a pause(), has asked the backend to pause both VCPUs, none of
\* the acknowledgements of an earlier pause being owed any more
C17_Witness ==
    /\ ncalls = 3 /\ last.op = "pause" /\ last.ret = "Ok" /\ last.pre = 0
    /\ Len(last.calls) = 2 /\ nvcpu = 2 /\ expect_pause_ev = 2
    /\ \A v \in Vcpus : kvmi.acks[v] = 1

\* the number of pause acknowledgements the backend owes for the VCPUs 0 .. n-1
RECURSIVE AcksOwed(_)
AcksOwed(n) == IF n = 0 THEN 0 ELSE kvmi.acks[n - 1] + AcksOwed(n - 1)

\* C18: in every state the expected-acknowledgement count is the number of pause
\* acknowledgements asked of the backend and not yet consumed, and lies in
\* 0..vcpu_count.
C18_CounterMatchesBackend ==
    /\ expect_pause_ev \in 0 .. nvcpu
    /\ expect_pause_ev = AcksOwed(nvcpu)

\* C19: when the backend refuses the Continue reply to a pause acknowledgement,
\* resume() returns that error with the counter not decremented for that VCPU.
C19_FailedReplyKeepsCount ==
    [][(/\ pc = "draining"
        /\ Len(last'.calls) = Len(last.calls) + 2
        /\ last'.calls[Len(last'.calls)].fn = "reply"
        /\ ~last'.calls[Len(last'.calls)].ok)
        => /\ last'.ret = "Err"
           /\ pc' = "idle"
           /\ expect_pause_ev' = expect_pause_ev]_vars

\* C20: a resume() that starts draining with the N acknowledgements of a
\* successful pause() outstanding, in front of a backend that hands out each of
\* them in the end and accepts each reply, returns success in the end with the
\* expected-acknowledgement count at 0.
C20_ResumeTerminates ==
    (pc = "draining" /\ last.pre = nvcpu)
        ~> (pc = "idle" /\ last.op = "resume" /\ last.ret = "Ok" /\ expect_pause_ev = 0)

====
